---- MODULE Spec2Model ----
(***************************************************************************)
(* Model of wavenet/parallel_wavenet.py (class ParallelWavenet).           *)
(*                                                                         *)
(* Tensor values are exact reals.  One (batch, time) entry is modelled,    *)
(* every operation of the flow being element-wise.                         *)
(*                                                                         *)
(* Linear-domain values (samples, means, scales) are elements of the ring  *)
(* Z[e, 1/e]: a value is a finite set of terms <<k, c>> (c # 0, one term   *)
(* per k) denoting the sum of c * e^k.  e is transcendental, so two values *)
(* are equal as reals iff their term sets are equal.  Log-domain values    *)
(* (raw log-scales, log_scale, log_scale_tot) are integers.  tf.exp takes  *)
(* the integer n to the value {<<n, 1>>}; tf.log is defined on the pure    *)
(* powers of e, which are the only values the model takes logs of.         *)
(***************************************************************************)
EXTENDS Integers, Sequences, FiniteSets, TLC

\* ---------------------------------------------------------------- bounds
MaxIafs == 5
MaxFrames == 4
MaxStages == 3
MaxLayers == 3
MaxWidth == 4
MaxWav == 6
MaxLoss == 2

\* ------------------------------------------------- exact real arithmetic
Const(c) == IF c = 0 THEN {} ELSE {<<0, c>>}

Exps(p) == {t[1] : t \in p}

Coef(p, k) == IF k \in Exps(p) THEN (CHOOSE t \in p : t[1] = k)[2] ELSE 0

Add(p, q) ==
    {<<k, Coef(p, k) + Coef(q, k)>> :
        k \in {j \in Exps(p) \cup Exps(q) : Coef(p, j) + Coef(q, j) # 0}}

Neg(p) == {<<t[1], 0 - t[2]>> : t \in p}

MulTerm(t, q) == {<<t[1] + u[1], t[2] * u[2]>> : u \in q}

RECURSIVE Mul(_, _)
Mul(p, q) ==
    IF p = {} THEN {}
    ELSE LET t == CHOOSE u \in p : TRUE
         IN  Add(MulTerm(t, q), Mul(p \ {t}, q))

\* tf.exp on an integer log-domain value
Exp(n) == {<<n, 1>>}

IsPow(p) == \E t \in p : p = {t} /\ t[2] = 1

\* tf.log on a pure power of e
Log(p) == (CHOOSE t \in p : TRUE)[1]

MinInt(a, b) == IF a <= b THEN a ELSE b

MaxInt(a, b) == IF a >= b THEN a ELSE b

\* tf.minimum on pure powers of e (e^a <= e^b iff a <= b)
MinimumPow(p, q) == IF Log(p) <= Log(q) THEN p ELSE q

MaximumPow(p, q) == IF Log(p) >= Log(q) THEN p ELSE q

\* tf.clip_by_value(t, lo, hi) = minimum(maximum(t, lo), hi)
ClipInt(t, lo, hi) == MinInt(MaxInt(t, lo), hi)

ClipPow(p, lo, hi) == MinimumPow(MaximumPow(p, lo), hi)

\* ------------------------------------------------------------- variables
VARIABLES
    \* value level: one run of feed_forward over the built graph
    ff_pc, num_iafs, use_log_scale, x, iaf_x, iaf_idx,
    mean_tot, scale_tot, log_scale_tot, iaf_dicts, iaf_inputs, ff_ret,
    kl_ret,
    \* graph level: feed_forward and _create_iaf building the graph
    g_pc, hparams, num_frames, frame_shift, max_dilation, length,
    g_iaf_idx, layer_i, dilation, m,
    \* power_loss
    pl_pc, wav_dict, pred_wav, orig_wav,
    \* construction and the loss calls
    ctor_pc, args, obj, call_pc, te_call, loss_dict

ff_vars == <<ff_pc, num_iafs, use_log_scale, x, iaf_x, iaf_idx,
             mean_tot, scale_tot, log_scale_tot, iaf_dicts, iaf_inputs, ff_ret,
             kl_ret>>

g_vars == <<g_pc, hparams, num_frames, frame_shift, max_dilation, length,
            g_iaf_idx, layer_i, dilation, m>>

pl_vars == <<pl_pc, wav_dict, pred_wav, orig_wav>>

tr_vars == <<ctor_pc, args, obj, call_pc, te_call, loss_dict>>

vars == <<ff_vars, g_vars, pl_vars, tr_vars>>

None == [none |-> TRUE]

\* ------------------------------------------ value level: _create_iaf tail
\* Raw outputs of the out2_scale projection.  With use_log_scale the raw
\* value is the integer itself.  Without it the raw value [isp |-> n] is the
\* real whose softplus is e^n, i.e. log(exp(e^n) - 1).
RawOf(log_mode, n) == IF log_mode THEN n ELSE [isp |-> n]

\* (out2_mean output, n of the out2_scale output) pairs a stage may produce:
\* the identity stage, an in-range scale, and raw values beyond either
\* clipping bound
StageOuts == {<<0, 0>>, <<1, 4>>, <<0, 8>>, <<1, -10>>}

\* draws of _logistic_0_1
NoiseVals == {Const(-1), Const(2)}

\* tf.nn.softplus: log(1 + exp(raw)) = e^n for raw = log(exp(e^n) - 1)
Softplus(raw) == Exp(raw.isp)

IafLogScaleLogMode(scale_params) == ClipInt(scale_params, -9, 7)

IafScaleDirect(scale_params) ==
    ClipPow(Softplus(scale_params), Exp(-9), Exp(7))

IafScale(log_mode, scale_params) ==
    IF log_mode THEN Exp(IafLogScaleLogMode(scale_params))
    ELSE IafScaleDirect(scale_params)

IafLogScaleUnclipped(log_mode, scale_params) ==
    IF log_mode THEN IafLogScaleLogMode(scale_params)
    ELSE Log(Softplus(scale_params))

IafLogScale(log_mode, scale_params) ==
    IF log_mode THEN IafLogScaleLogMode(scale_params)
    ELSE Log(IafScaleDirect(scale_params))

IafNewX(in_x, scale, mean) == Add(Mul(in_x, scale), mean)

\* the dict returned by _create_iaf
IafDict(log_mode, in_x, mean, scale_params) ==
    [x         |-> IafNewX(in_x, IafScale(log_mode, scale_params), mean),
     mean      |-> mean,
     scale     |-> IafScale(log_mode, scale_params),
     log_scale |-> IafLogScale(log_mode, scale_params)]

\* ----------------------------------------- value level: feed_forward
ComposeMeanNoScale(mean, mt, scale) == Add(mean, mt)

ComposeMean(mean, mt, scale) == Add(mean, Mul(mt, scale))

ComposeScale(st, scale) == Mul(st, scale)

ComposeLogScale(lt, log_scale) == lt + log_scale

FinalScaleTotNoClip(st) == st

FinalScaleTotMax(st) == MaximumPow(st, Exp(7))

FinalScaleTot(st) == MinimumPow(st, Exp(7))

FinalLogScaleTotNoClip(lt) == lt

FinalLogScaleTot(lt) == MinInt(lt, 7)

FinalX(noise, st, mt) == Add(Mul(noise, st), mt)

FFInit ==
    /\ ff_pc = "loop"
    /\ num_iafs \in 1..MaxIafs
    /\ use_log_scale \in BOOLEAN
    /\ x \in NoiseVals
    /\ iaf_x = x
    /\ iaf_idx = 0
    /\ mean_tot = Const(0)
    /\ scale_tot = Const(1)
    /\ log_scale_tot = 0
    /\ iaf_dicts = <<>>
    /\ iaf_inputs = <<>>
    /\ ff_ret = None
    /\ kl_ret = None

\* one iteration of the stage loop of feed_forward
FFStage ==
    /\ ff_pc = "loop"
    /\ iaf_idx < num_iafs
    /\ \E out \in StageOuts :
         LET mean == Const(out[1])
             scale_params == RawOf(use_log_scale, out[2])
             iaf_dict == IafDict(use_log_scale, iaf_x, mean, scale_params)
         IN  /\ iaf_x' = iaf_dict.x
             /\ mean_tot' = ComposeMean(iaf_dict.mean, mean_tot, iaf_dict.scale)
             /\ scale_tot' = ComposeScale(scale_tot, iaf_dict.scale)
             /\ log_scale_tot' = ComposeLogScale(log_scale_tot, iaf_dict.log_scale)
             /\ iaf_dicts' = Append(iaf_dicts, iaf_dict)
             /\ iaf_inputs' = Append(iaf_inputs,
                                     [x |-> iaf_x, scale_params |-> scale_params])
    /\ iaf_idx' = iaf_idx + 1
    /\ UNCHANGED <<ff_pc, num_iafs, use_log_scale, x, ff_ret, kl_ret>>
    /\ UNCHANGED <<g_vars, pl_vars, tr_vars>>

\* the tail of feed_forward: clipping of the totals and the returned dict
FFReturn ==
    /\ ff_pc = "loop"
    /\ iaf_idx = num_iafs
    /\ ff_pc' = "done"
    /\ scale_tot' = FinalScaleTot(scale_tot)
    /\ log_scale_tot' = FinalLogScaleTot(log_scale_tot)
    /\ ff_ret' = [x             |-> FinalX(x, scale_tot', mean_tot),
                  mean_tot      |-> mean_tot,
                  scale_tot     |-> scale_tot',
                  log_scale_tot |-> log_scale_tot',
                  rand_input    |-> x]
    /\ UNCHANGED <<num_iafs, use_log_scale, x, iaf_x, iaf_idx, mean_tot,
                   iaf_dicts, iaf_inputs, kl_ret>>
    /\ UNCHANGED <<g_vars, pl_vars, tr_vars>>

\* ------------------------------------------------ value level: kl_loss
\* draws of _logistic_0_1 inside kl_loss
KlNoiseVals == {Const(-1), Const(1)}

\* cross entropies the teacher's mixture of logistics can give
XentVals == {0, 3}

KlSample(rl, scale, mean) == Add(Mul(rl, scale), mean)

KlEntropy(log_scale) == log_scale + 2

KlLossValue(H_Ps_Pt, H_Ps) == H_Ps_Pt - H_Ps

\* kl_loss on the dict feed_forward returned
FFKlLoss ==
    /\ ff_pc = "done"
    /\ ff_pc' = "kl"
    /\ \E rl \in KlNoiseVals, H_Ps_Pt \in XentVals :
         LET H_Ps == KlEntropy(ff_ret.log_scale_tot)
         IN  kl_ret' = [rl      |-> rl,
                        x_xp    |-> KlSample(rl, ff_ret.scale_tot, ff_ret.mean_tot),
                        kl_loss |-> KlLossValue(H_Ps_Pt, H_Ps),
                        H_Ps    |-> H_Ps,
                        H_Ps_Pt |-> H_Ps_Pt]
    /\ UNCHANGED <<num_iafs, use_log_scale, x, iaf_x, iaf_idx, mean_tot,
                   scale_tot, log_scale_tot, iaf_dicts, iaf_inputs, ff_ret>>
    /\ UNCHANGED <<g_vars, pl_vars, tr_vars>>

\* ------------------------------------- graph level: shapes and asserts
\* deconv_config values [[l1, s1], [l2, s2]]
DeconvConfigs ==
    {<<>>, <<<<4, 2>>>>, <<<<6, 3>>>>, <<<<4, 2>>, <<6, 3>>>>,
     <<<<2, 1>>, <<10, 5>>>>}

\* num_iaf_layers values: one or two stages
LayerConfigs == UNION {[1..n -> 0..MaxLayers] : n \in 1..2}

RECURSIVE Pow2(_)
Pow2(n) == IF n = 0 THEN 1 ELSE 2 * Pow2(n - 1)

RECURSIVE ProdStrides(_)
\* np.prod([dc[1] for dc in deconv_config])
ProdStrides(dc) == IF dc = <<>> THEN 1 ELSE Head(dc)[2] * ProdStrides(Tail(dc))

MaxDilation(num_stages) == Pow2(num_stages - 1)

NoiseLengthBadPrecedence(nf, fs, md) == nf * (fs \div md) * md

NoiseLength(nf, fs, md) == ((nf * fs) \div md) * md

LayerDilation(i, num_stages) == Pow2(i % num_stages)

GateCheckOff(gate_width) == TRUE

\* assert d.get_shape().as_list()[2] % 2 == 0
GateCheck(gate_width) == gate_width % 2 = 0

GateHalf(gate_width) == gate_width \div 2

GInit ==
    /\ g_pc = "start"
    /\ hparams \in [num_stages : 1..MaxStages, num_iaf_layers : LayerConfigs,
                    width : 1..MaxWidth, deconv_config : DeconvConfigs]
    /\ num_frames \in 0..MaxFrames
    /\ frame_shift = 0
    /\ max_dilation = 0
    /\ length = 0
    /\ g_iaf_idx = 0
    /\ layer_i = 0
    /\ dilation = 0
    /\ m = 0

GIdle ==
    /\ g_pc = "idle"
    /\ hparams = None
    /\ num_frames = 0
    /\ frame_shift = 0
    /\ max_dilation = 0
    /\ length = 0
    /\ g_iaf_idx = 0
    /\ layer_i = 0
    /\ dilation = 0
    /\ m = 0

\* feed_forward up to the draw of the noise
GFeedForwardBegin ==
    /\ g_pc = "start"
    /\ g_pc' = "ff_loop"
    /\ frame_shift' = ProdStrides(hparams.deconv_config)
    /\ max_dilation' = MaxDilation(hparams.num_stages)
    /\ length' = NoiseLength(num_frames, frame_shift', max_dilation')
    /\ g_iaf_idx' = 0
    /\ UNCHANGED <<hparams, num_frames, layer_i, dilation, m>>
    /\ UNCHANGED <<ff_vars, pl_vars, tr_vars>>

\* feed_forward calls _create_iaf, which runs up to its layer loop
GIafBegin ==
    /\ g_pc = "ff_loop"
    /\ g_iaf_idx < Len(hparams.num_iaf_layers)
    /\ g_pc' = "layers"
    /\ layer_i' = 0
    /\ UNCHANGED <<hparams, num_frames, frame_shift, max_dilation, length,
                   g_iaf_idx, dilation, m>>
    /\ UNCHANGED <<ff_vars, pl_vars, tr_vars>>

\* one iteration of the layer loop of _create_iaf
GIafLayer ==
    /\ g_pc = "layers"
    /\ layer_i < hparams.num_iaf_layers[g_iaf_idx + 1]
    /\ dilation' = LayerDilation(layer_i, hparams.num_stages)
    /\ IF GateCheck(hparams.width)
       THEN /\ m' = GateHalf(hparams.width)
            /\ layer_i' = layer_i + 1
            /\ g_pc' = g_pc
       ELSE /\ g_pc' = "failed"
            /\ UNCHANGED <<m, layer_i>>
    /\ UNCHANGED <<hparams, num_frames, frame_shift, max_dilation, length,
                   g_iaf_idx>>
    /\ UNCHANGED <<ff_vars, pl_vars, tr_vars>>

\* _create_iaf after its layer loop, returning into the stage loop
GIafReturn ==
    /\ g_pc = "layers"
    /\ layer_i = hparams.num_iaf_layers[g_iaf_idx + 1]
    /\ g_pc' = "ff_loop"
    /\ g_iaf_idx' = g_iaf_idx + 1
    /\ UNCHANGED <<hparams, num_frames, frame_shift, max_dilation, length,
                   layer_i, dilation, m>>
    /\ UNCHANGED <<ff_vars, pl_vars, tr_vars>>

\* feed_forward after the stage loop
GFeedForwardEnd ==
    /\ g_pc = "ff_loop"
    /\ g_iaf_idx = Len(hparams.num_iaf_layers)
    /\ g_pc' = "built"
    /\ UNCHANGED <<hparams, num_frames, frame_shift, max_dilation, length,
                   g_iaf_idx, layer_i, dilation, m>>
    /\ UNCHANGED <<ff_vars, pl_vars, tr_vars>>

\* ------------------------------------------------------------ power_loss
\* waveform lengths: the short ones and the lengths 1000 and 1003
WavLens == (0..MaxWav) \cup {1000, 1003}

\* a waveform of n samples, sample j (from 0) tagged base + j
Wave(n, base) == [j \in 1..n |-> base + j - 1]

TrimFromStart(wav, trim_len) == SubSeq(wav, 1, Len(wav) - trim_len)

\* _trim: tf.slice(x, [0, left_tl], [-1, x_len - trim_len])
Trim(wav, trim_len) ==
    LET x_len == Len(wav)
        left_tl == trim_len \div 2
    IN  SubSeq(wav, left_tl + 1, left_tl + (x_len - trim_len))

PLInit ==
    /\ pl_pc = "call"
    /\ \E pred_len \in WavLens, orig_len \in WavLens :
          wav_dict = [x |-> Wave(pred_len, 0), wav |-> Wave(orig_len, 5000)]
    /\ pred_wav = <<>>
    /\ orig_wav = <<>>

\* power_loss up to the spectra, which are computed from pred_wav and
\* orig_wav by tf.contrib.signal.stft
PowerLoss ==
    /\ pl_pc = "call"
    /\ pl_pc' = "aligned"
    /\ LET pred_len == Len(wav_dict.x)
           orig_len == Len(wav_dict.wav)
       IN  /\ pred_wav' = IF pred_len > orig_len
                          THEN Trim(wav_dict.x, pred_len - orig_len)
                          ELSE wav_dict.x
           /\ orig_wav' = IF pred_len > orig_len THEN wav_dict.wav
                          ELSE IF pred_len < orig_len
                          THEN Trim(wav_dict.wav, orig_len - pred_len)
                          ELSE wav_dict.wav
    /\ UNCHANGED wav_dict
    /\ UNCHANGED <<ff_vars, g_vars, tr_vars>>

\* ------------------------------------- __init__, kl_loss, calculate_loss
Teachers == [loss_type : {"mol", "ce"}, use_mu_law : BOOLEAN]

\* power_loss_factor values
PlfVals == {-1, 0, 1, 2}

\* mean of log_scale_tot over batch and time
LogScaleMeans == {-9, 0, 7}

QuantChann(use_mu_law) == IF use_mu_law THEN 256 ELSE 65536

TeacherCheckLossTypeOnly(te, use_mu_law) == te.loss_type = "mol"

\* assert teacher.loss_type == 'mol'; assert teacher.use_mu_law == self.use_mu_law
TeacherCheck(te, use_mu_law) ==
    te.loss_type = "mol" /\ te.use_mu_law = use_mu_law

IncludePowerGe(plf) == plf >= 0

\* if plf > 0.0
IncludePower(plf) == plf > 0

\* dict.update
DictUpdate(d, e) ==
    [k \in DOMAIN d \cup DOMAIN e |-> IF k \in DOMAIN e THEN e[k] ELSE d[k]]

\* the dict kl_loss returns
KlDict(H_Ps_Pt, log_scale) ==
    [k \in {"kl_loss", "H_Ps", "H_Ps_Pt"} |->
        IF k = "kl_loss" THEN KlLossValue(H_Ps_Pt, KlEntropy(log_scale))
        ELSE IF k = "H_Ps" THEN KlEntropy(log_scale)
        ELSE H_Ps_Pt]

\* the dict calculate_loss returns, pl being what power_loss returned
LossDict(plf, H_Ps_Pt, log_scale, pl) ==
    LET kl_dict == KlDict(H_Ps_Pt, log_scale)
        kl == kl_dict["kl_loss"]
        with_pl == IF IncludePower(plf)
                   THEN DictUpdate(kl_dict, [k \in {"power_loss"} |-> pl])
                   ELSE kl_dict
        loss == IF IncludePower(plf) THEN kl + plf * pl ELSE kl
    IN  DictUpdate(with_pl, [k \in {"loss"} |-> loss])

TrInit ==
    /\ ctor_pc = "new"
    /\ args \in [use_mu_law : BOOLEAN, power_loss_factor : PlfVals,
                 teacher : Teachers \cup {None}]
    /\ obj = None
    /\ call_pc = "idle"
    /\ te_call = None
    /\ loss_dict = None

\* __init__ up to the asserts on the teacher
CtorAssign ==
    /\ ctor_pc = "new"
    /\ obj' = [use_mu_law  |-> args.use_mu_law,
               quant_chann |-> QuantChann(args.use_mu_law),
               out_width   |-> 2,
               plf         |-> args.power_loss_factor,
               teacher     |-> args.teacher]
    /\ ctor_pc' = IF args.teacher = None THEN "built" ELSE "asserting"
    /\ UNCHANGED <<args, call_pc, te_call, loss_dict>>
    /\ UNCHANGED <<ff_vars, g_vars, pl_vars>>

\* the two asserts of __init__
CtorAssert ==
    /\ ctor_pc = "asserting"
    /\ ctor_pc' = IF TeacherCheck(obj.teacher, obj.use_mu_law)
                  THEN "built" ELSE "failed"
    /\ UNCHANGED <<args, obj, call_pc, te_call, loss_dict>>
    /\ UNCHANGED <<ff_vars, g_vars, pl_vars>>

\* a call of kl_loss on a constructed instance
KlLoss ==
    /\ ctor_pc = "built"
    /\ IF obj.teacher = None
       THEN /\ call_pc' = "AttributeError"
            /\ UNCHANGED <<te_call, loss_dict>>
       ELSE \E H_Ps_Pt \in XentVals, log_scale \in LogScaleMeans :
               /\ call_pc' = "kl_loss"
               /\ te_call' = [teacher |-> obj.teacher,
                              quant_chann |-> obj.quant_chann]
               /\ loss_dict' = KlDict(H_Ps_Pt, log_scale)
    /\ UNCHANGED <<ctor_pc, args, obj>>
    /\ UNCHANGED <<ff_vars, g_vars, pl_vars>>

\* a call of calculate_loss on a constructed instance
CalculateLoss ==
    /\ ctor_pc = "built"
    /\ IF obj.teacher = None
       THEN /\ call_pc' = "AttributeError"
            /\ UNCHANGED <<te_call, loss_dict>>
       ELSE \E H_Ps_Pt \in XentVals, log_scale \in LogScaleMeans,
               pl \in 0..MaxLoss :
               /\ call_pc' = "calculate_loss"
               /\ te_call' = [teacher |-> obj.teacher,
                              quant_chann |-> obj.quant_chann]
               /\ loss_dict' = LossDict(obj.plf, H_Ps_Pt, log_scale, pl)
    /\ UNCHANGED <<ctor_pc, args, obj>>
    /\ UNCHANGED <<ff_vars, g_vars, pl_vars>>

FFIdle ==
    /\ ff_pc = "idle"
    /\ num_iafs = 0
    /\ use_log_scale = TRUE
    /\ x = Const(0)
    /\ iaf_x = Const(0)
    /\ iaf_idx = 0
    /\ mean_tot = Const(0)
    /\ scale_tot = Const(1)
    /\ log_scale_tot = 0
    /\ iaf_dicts = <<>>
    /\ iaf_inputs = <<>>
    /\ ff_ret = None
    /\ kl_ret = None

PLIdle ==
    /\ pl_pc = "idle"
    /\ wav_dict = None
    /\ pred_wav = <<>>
    /\ orig_wav = <<>>

TrIdle ==
    /\ ctor_pc = "idle"
    /\ args = None
    /\ obj = None
    /\ call_pc = "idle"
    /\ te_call = None
    /\ loss_dict = None

Init == FFInit /\ GIdle /\ PLIdle /\ TrIdle

Next == FFStage \/ FFReturn \/ FFKlLoss

Spec == Init /\ [][Next]_vars

InitGraph == GInit /\ FFIdle /\ PLIdle /\ TrIdle

NextGraph ==
    GFeedForwardBegin \/ GIafBegin \/ GIafLayer \/ GIafReturn \/ GFeedForwardEnd

SpecGraph == InitGraph /\ [][NextGraph]_vars

InitPower == PLInit /\ FFIdle /\ GIdle /\ TrIdle

NextPower == PowerLoss

SpecPower == InitPower /\ [][NextPower]_vars

InitTrain == TrInit /\ FFIdle /\ GIdle /\ PLIdle

NextTrain == CtorAssign \/ CtorAssert \/ KlLoss \/ CalculateLoss

SpecTrain == InitTrain /\ [][NextTrain]_vars

\* ================================================================ claims
RECURSIVE Thread(_, _)
\* the sample v passed through the stages ds one after another
Thread(ds, v) ==
    IF ds = <<>> THEN v
    ELSE Thread(Tail(ds), Add(Mul(v, Head(ds).scale), Head(ds).mean))

SeqMean == Thread(iaf_dicts, Const(0))

SeqScale == Add(Thread(iaf_dicts, Const(1)), Neg(Thread(iaf_dicts, Const(0))))

Returned == ff_pc \in {"done", "kl"}

\* C1 (as stated): the closed-form totals and the returned x equal the
\* result of threading the noise through the stages one after another.
C1_Original ==
    Returned =>
        /\ ff_ret.mean_tot = SeqMean
        /\ ff_ret.scale_tot = SeqScale
        /\ ff_ret.x = iaf_x

\* C1 (amended): inside the loop the running totals reproduce the threaded
\* sample; the returned mean_tot is the threaded mean; the returned
\* scale_tot and x are the threaded ones when the product of the stage
\* scales is at most exp(7), and otherwise scale_tot = exp(7) and
\* x = noise * exp(7) + mean_tot.
C1_Composition ==
    /\ ff_pc = "loop" =>
          /\ iaf_x = Add(Mul(x, scale_tot), mean_tot)
          /\ mean_tot = SeqMean
          /\ scale_tot = SeqScale
    /\ Returned =>
          /\ ff_ret.mean_tot = SeqMean
          /\ IF Log(SeqScale) <= 7
             THEN ff_ret.scale_tot = SeqScale /\ ff_ret.x = iaf_x
             ELSE /\ ff_ret.scale_tot = Exp(7)
                  /\ ff_ret.x = Add(Mul(x, Exp(7)), SeqMean)

C1_Witness ==
    /\ ff_pc = "done"
    /\ num_iafs = 5
    /\ Log(SeqScale) <= 7
    /\ SeqScale # Const(1)
    /\ Cardinality(SeqMean) >= 2

InRange(p) == IsPow(p) /\ -9 <= Log(p) /\ Log(p) <= 7

\* C2 (as stated): every stage scale and the returned scale_tot lie within
\* [exp(-9), exp(7)], and log_scale_tot is at most 7.
C2_Original ==
    /\ \A i \in 1..Len(iaf_dicts) : InRange(iaf_dicts[i].scale)
    /\ Returned => InRange(ff_ret.scale_tot) /\ ff_ret.log_scale_tot <= 7

\* C2 (amended): every stage scale lies within [exp(-9), exp(7)]; the
\* returned scale_tot lies within [exp(-9 * num_iafs), exp(7)], and
\* log_scale_tot is at most 7.
C2_ClipBounds ==
    /\ \A i \in 1..Len(iaf_dicts) : InRange(iaf_dicts[i].scale)
    /\ Returned =>
          /\ IsPow(ff_ret.scale_tot)
          /\ Log(ff_ret.scale_tot) <= 7
          /\ Log(ff_ret.scale_tot) >= -9 * num_iafs
          /\ ff_ret.log_scale_tot <= 7

C2_Witness ==
    /\ ff_pc = "done"
    /\ \E i \in 1..Len(iaf_dicts) :
          /\ iaf_dicts[i].scale = Exp(7)
          /\ iaf_inputs[i].scale_params = RawOf(use_log_scale, 8)
    /\ \E i \in 1..Len(iaf_dicts) :
          /\ iaf_dicts[i].scale = Exp(-9)
          /\ iaf_inputs[i].scale_params = RawOf(use_log_scale, -10)

IsIdentity(d) == d.mean = Const(0) /\ d.scale = Const(1) /\ d.log_scale = 0

AllIdentity == \A i \in 1..Len(iaf_dicts) : IsIdentity(iaf_dicts[i])

\* C8: when every stage is the identity affine map, feed_forward returns
\* x equal to rand_input, mean_tot = 0, scale_tot = 1, log_scale_tot = 0.
C8_Identity ==
    (Returned /\ AllIdentity) =>
        /\ ff_ret.x = ff_ret.rand_input
        /\ ff_ret.mean_tot = Const(0)
        /\ ff_ret.scale_tot = Const(1)
        /\ ff_ret.log_scale_tot = 0

C8_Witness == ff_pc = "done" /\ AllIdentity /\ num_iafs >= 2

\* C9: every stage's returned triple has scale = exp(log_scale); with
\* use_log_scale, log_scale is the raw value clipped to [-9, 7]; without it,
\* scale is softplus(raw) clipped to [exp(-9), exp(7)] and log_scale is
\* log(scale); the stage's output is x * scale + mean on the returned values.
C9_AffineParams ==
    \A i \in 1..Len(iaf_dicts) :
        LET d == iaf_dicts[i]
            raw == iaf_inputs[i].scale_params
        IN  /\ d.scale = Exp(d.log_scale)
            /\ d.x = Add(Mul(iaf_inputs[i].x, d.scale), d.mean)
            /\ use_log_scale =>
                  d.log_scale = (IF raw < -9 THEN -9 ELSE IF raw > 7 THEN 7 ELSE raw)
            /\ ~use_log_scale =>
                  /\ d.scale = (IF Log(Softplus(raw)) < -9 THEN Exp(-9)
                                ELSE IF Log(Softplus(raw)) > 7 THEN Exp(7)
                                ELSE Softplus(raw))
                  /\ IsPow(d.scale) /\ d.log_scale = Log(d.scale)

C9_Witness ==
    /\ ~use_log_scale
    /\ \E i \in 1..Len(iaf_dicts) :
          /\ iaf_dicts[i].scale = Exp(7)
          /\ iaf_inputs[i].scale_params = RawOf(FALSE, 8)
    /\ \E i \in 1..Len(iaf_dicts) :
          /\ iaf_dicts[i].scale = Exp(4)
          /\ iaf_dicts[i].x # iaf_inputs[i].x

\* C10: the returned log_scale_tot is the log of the returned scale_tot,
\* so the entropy H_Ps of kl_loss is 2 + log of the scale kl_loss draws its
\* samples with.
C10_LogConsistent ==
    /\ Returned =>
          IsPow(ff_ret.scale_tot) /\ ff_ret.log_scale_tot = Log(ff_ret.scale_tot)
    /\ ff_pc = "kl" =>
          /\ kl_ret.H_Ps = ff_ret.log_scale_tot + 2
          /\ kl_ret.x_xp = Add(Mul(kl_ret.rl, Exp(kl_ret.H_Ps - 2)), ff_ret.mean_tot)

C10_Witness ==
    /\ ff_pc = "kl"
    /\ num_iafs >= 2
    /\ ff_ret.scale_tot = Exp(7)
    /\ \A i \in 1..Len(iaf_dicts) : iaf_dicts[i].scale # Exp(7)

\* C3: the noise length is floor(num_frames * frame_shift / max_dilation) *
\* max_dilation, the largest multiple of max_dilation = 2^(num_stages - 1)
\* not above num_frames * frame_shift, and every layer's dilation
\* 2^(i mod num_stages) divides it.
C3_NoiseLength ==
    g_pc \notin {"idle", "start"} =>
        /\ max_dilation = Pow2(hparams.num_stages - 1)
        /\ \E q \in 0..(num_frames * frame_shift) :
              /\ length = q * max_dilation
              /\ length <= num_frames * frame_shift
              /\ num_frames * frame_shift < length + max_dilation
        /\ \A i \in 0..MaxLayers : length % Pow2(i % hparams.num_stages) = 0
        /\ (g_pc = "layers" /\ layer_i > 0) => length % dilation = 0

C3_Witness ==
    /\ g_pc = "layers"
    /\ layer_i = 3
    /\ hparams.num_stages = 2
    /\ dilation = 1
    /\ length = 4
    /\ num_frames * frame_shift = 5

\* C7 (as stated): no stage is built when the gated-unit channel count is odd.
C7_Original ==
    (g_iaf_idx >= 1 \/ g_pc = "built") => hparams.width % 2 = 0

\* C7 (amended): building a stage that has at least one layer fails, at its
\* first layer, whenever the gated-unit channel count is odd (a stage with no
\* layer builds no gate and does not fail); when the count is even the gate
\* is formed from two halves of half that count each.
C7_GateWidth ==
    /\ \A k \in 1..g_iaf_idx :
          hparams.num_iaf_layers[k] >= 1 => hparams.width % 2 = 0
    /\ (g_pc = "layers" /\ hparams.width % 2 = 1) => layer_i = 0
    /\ g_pc = "failed" =>
          /\ hparams.width % 2 = 1
          /\ layer_i = 0
          /\ hparams.num_iaf_layers[g_iaf_idx + 1] >= 1
    /\ (g_pc = "layers" /\ layer_i > 0) =>
          /\ m + m = hparams.width
          /\ hparams.width - m = m

C7_Witness ==
    /\ g_pc = "failed"
    /\ g_iaf_idx = 1
    /\ hparams.width = 3
    /\ hparams.num_iaf_layers = <<0, 2>>

\* C4: power_loss trims only the longer waveform, floor(d/2) samples from
\* its left and d - floor(d/2) from its right, keeps the contiguous samples
\* from index floor(d/2) on, and leaves both waveforms min(pred_len,
\* orig_len) long; equal lengths change nothing; 1003 against 1000 trims 1
\* on the left and 2 on the right.
C4_CenteredTrim ==
    pl_pc = "aligned" =>
        LET pred == wav_dict.x
            orig == wav_dict.wav
            long == IF Len(pred) > Len(orig) THEN pred ELSE orig
            short == IF Len(pred) > Len(orig) THEN orig ELSE pred
            cut == IF Len(pred) > Len(orig) THEN pred_wav ELSE orig_wav
            kept == IF Len(pred) > Len(orig) THEN orig_wav ELSE pred_wav
            d == Len(long) - Len(short)
            left == d \div 2
            right == d - left
        IN  /\ kept = short
            /\ Len(pred_wav) = Len(short) /\ Len(orig_wav) = Len(short)
            /\ \A j \in 1..Len(cut) : cut[j] = long[left + j]
            /\ Len(cut) > 0 => cut[Len(cut)] = long[Len(long) - right]
            /\ d = 0 => (pred_wav = pred /\ orig_wav = orig)
            /\ (Len(orig) = 1003 /\ Len(pred) = 1000) =>
                  /\ left = 1 /\ right = 2
                  /\ orig_wav[1] = orig[2]
                  /\ orig_wav[1000] = orig[1001]
                  /\ pred_wav = pred

C4_Witness ==
    /\ pl_pc = "aligned"
    /\ Len(wav_dict.wav) = 1003
    /\ Len(wav_dict.x) = 1000
    /\ Len(orig_wav) = 1000

\* C5: calculate_loss returns loss = kl_loss + power_loss_factor *
\* power_loss when power_loss_factor > 0 and loss = kl_loss otherwise; the
\* bundle always holds kl_loss, H_Ps, H_Ps_Pt and loss, holds power_loss
\* exactly when power_loss_factor > 0, and its kl_loss entry is
\* H_Ps_Pt - H_Ps, untouched by the power term.
C5_LossBundle ==
    call_pc = "calculate_loss" =>
        /\ {"kl_loss", "H_Ps", "H_Ps_Pt", "loss"} \subseteq DOMAIN loss_dict
        /\ ("power_loss" \in DOMAIN loss_dict) <=> (obj.plf > 0)
        /\ DOMAIN loss_dict \subseteq
              {"kl_loss", "H_Ps", "H_Ps_Pt", "loss", "power_loss"}
        /\ loss_dict["kl_loss"] = loss_dict["H_Ps_Pt"] - loss_dict["H_Ps"]
        /\ obj.plf > 0 =>
              loss_dict["loss"] =
                  loss_dict["kl_loss"] + obj.plf * loss_dict["power_loss"]
        /\ obj.plf <= 0 => loss_dict["loss"] = loss_dict["kl_loss"]

C5_Witness ==
    /\ call_pc = "calculate_loss"
    /\ obj.plf = 2
    /\ loss_dict["power_loss"] = 2
    /\ loss_dict["loss"] # loss_dict["kl_loss"]

Mismatched(te, use_mu_law) ==
    te # None /\ (te.loss_type # "mol" \/ te.use_mu_law # use_mu_law)

\* C6: construction with a teacher that is not 'mol' or whose use_mu_law
\* differs from the student's fails, no constructed instance holds such a
\* teacher, and every kl_loss / calculate_loss call that evaluates a
\* teacher evaluates one agreeing with the student's quantization mode.
C6_TeacherChecked ==
    /\ (ctor_pc \in {"built", "failed"} /\ Mismatched(args.teacher, args.use_mu_law))
          => ctor_pc = "failed"
    /\ ctor_pc = "built" => ~Mismatched(obj.teacher, obj.use_mu_law)
    /\ ctor_pc = "failed" => call_pc = "idle"
    /\ call_pc \in {"kl_loss", "calculate_loss"} =>
          /\ te_call.teacher.loss_type = "mol"
          /\ te_call.teacher.use_mu_law = obj.use_mu_law
          /\ te_call.quant_chann = (IF te_call.teacher.use_mu_law THEN 256 ELSE 65536)

C6_Witness ==
    /\ ctor_pc = "failed"
    /\ args.teacher # None
    /\ args.teacher.loss_type = "mol"
    /\ args.teacher.use_mu_law # args.use_mu_law

====
